---- MODULE Spec2Model ----
(***************************************************************************)
(* Model of the HOS compliance core of trucklog-app                        *)
(* (backend/core_utils/hos_compliance.py): the violation resolution        *)
(* workflow, and the evaluation of a duty log by                           *)
(* AdvancedHOSComplianceEngine.calculate_advanced_hos_status.              *)
(***************************************************************************)
EXTENDS Integers, Sequences, FiniteSets, TLC

VARIABLES
    violation,   \* the Violation object the workflow operates on
    clock,       \* timezone.now()
    last,        \* the last workflow call: its name, its arguments, its result, the violation before it
    call,        \* the arguments of the two concurrent workflow calls
    pcR,         \* position of the thread running resolve_violation
    pcE,         \* position of the thread running escalate_violation
    tmpE,        \* the value the escalating thread has read and not yet written back
    duty_log,    \* the duty log handed to the engine
    evaluation,  \* the last call of calculate_advanced_hos_status on that log: its arguments and what it gave
    registry,    \* HOSRuleEngine.rules: the rule ids in insertion order, and the rule_config object each refers to
    rule_objects, \* the rule_config dictionaries, by object
    last_rule_call, \* the last call of update_rule or add_custom_rule: its arguments, its result, the rules before it
    rule_calls,  \* the number of such calls so far
    pass,        \* the pass of _check_advanced_violations over the rules, rule by rule
    active_teams, \* TeamDrivingCoordinator.active_teams: the TeamDrivingInfo of each team id
    handoff_count, \* the successful handoffs of each team since its create_team
    last_team_call \* the last call on the coordinator: its arguments, its result, the teams before it

wfVars == <<violation, clock, last>>
raceVars == <<call, pcR, pcE, tmpE>>
evalVars == <<duty_log, evaluation>>
ruleVars == <<registry, rule_objects, last_rule_call, rule_calls, pass>>
teamVars == <<active_teams, handoff_count, last_team_call>>
vars == <<violation, clock, last, call, pcR, pcE, tmpE, duty_log, evaluation,
          registry, rule_objects, last_rule_call, rule_calls, pass,
          active_teams, handoff_count, last_team_call>>

----------------------------------------------------------------------------
(* Bounds of the model *)

MaxEscalations == 2
MaxClock == 2
MaxEntries == 5
MaxShiftEntries == 3
MaxSleeperEntries == 4
MaxMalformedEntries == 3
MaxRuleCalls == 2
MaxRerunEntries == 2
MaxBreakEntries == 3
MaxHandoffs == 2
MaxTeamEntries == 1

----------------------------------------------------------------------------
(* class ViolationStatus *)

PENDING == "pending"
IN_REVIEW == "in_review"
RESOLVED == "resolved"
DISPUTED == "disputed"
ESCALATED == "escalated"

ViolationStatus == {PENDING, IN_REVIEW, RESOLVED, DISPUTED, ESCALATED}

(* Optional[str] = None, Optional[datetime] = None of the Violation dataclass *)
NoUser == "None"
NoTime == 0

(* Inputs of the workflow calls.  A string is modelled as the sequence of   *)
(* its pieces, the empty string as the empty sequence.                      *)
Users == {"alice", "bob"}
NoteTexts == {<<>>, <<"n1">>, <<"n2">>}
Reasons == {<<"r1">>, <<"r2">>}
Actions == {"acknowledge", "dispute", "escalate", "approve", "reject",
            "request_info", "review", "reopen", "resolve"}

(* Violation(...) with the dataclass defaults, in the given status *)
NewViolation(st) ==
    [status |-> st,
     resolution_notes |-> <<>>,
     resolved_by |-> NoUser,
     resolved_at |-> NoTime,
     escalation_level |-> 0]

----------------------------------------------------------------------------
(* class ViolationResolutionWorkflow *)

workflow_steps_ResolveFromPending ==
    [s \in ViolationStatus |->
        CASE s = PENDING   -> {"acknowledge", "dispute", "escalate", "resolve"}
          [] s = IN_REVIEW -> {"approve", "reject", "request_info"}
          [] s = DISPUTED  -> {"review", "approve", "reject"}
          [] s = ESCALATED -> {"review", "approve", "reject"}
          [] s = RESOLVED  -> {"reopen"}]

workflow_steps ==
    [s \in ViolationStatus |->
        CASE s = PENDING   -> {"acknowledge", "dispute", "escalate"}
          [] s = IN_REVIEW -> {"approve", "reject", "request_info"}
          [] s = DISPUTED  -> {"review", "approve", "reject"}
          [] s = ESCALATED -> {"review", "approve", "reject"}
          [] s = RESOLVED  -> {"reopen"}]

(* resolve_violation(violation, resolution_notes, resolved_by, action):     *)
(* the returned bool and the violation as the call leaves it.               *)
(* The whole body is in a try whose except returns False: reading an       *)
(* attribute the object does not have (AttributeError) ends the call        *)
(* there, with the assignments made before it.                              *)
resolve_violation(v, resolution_notes, resolved_by, action, now) ==
    IF "status" \notin DOMAIN v
    THEN [ok |-> FALSE, violation |-> v]
    ELSE IF v.status \notin ViolationStatus \/ action \notin workflow_steps[v.status]
    THEN [ok |-> FALSE, violation |-> v]
    ELSE [ok |-> TRUE,
          violation |-> [v EXCEPT !.resolution_notes = resolution_notes,
                                  !.resolved_by = resolved_by,
                                  !.resolved_at = now,
                                  !.status = RESOLVED]]

(* f"\nEscalated: {escalation_reason}" *)
EscalatedNote(escalation_reason) == <<"\nEscalated: ">> \o escalation_reason

(* escalate_violation(violation, escalation_reason) *)
escalate_violation(v, escalation_reason) ==
    LET escalated == [a \in DOMAIN v \cup {"status"} |->
                        IF a = "status" THEN ESCALATED ELSE v[a]]
    IN  IF "escalation_level" \notin DOMAIN v
        THEN [ok |-> FALSE, violation |-> escalated]
        ELSE IF "resolution_notes" \notin DOMAIN v
        THEN [ok |-> FALSE,
              violation |-> [escalated EXCEPT !.escalation_level = v.escalation_level + 1]]
        ELSE [ok |-> TRUE,
              violation |-> [escalated EXCEPT
                                !.escalation_level = v.escalation_level + 1,
                                !.resolution_notes =
                                    v.resolution_notes \o EscalatedNote(escalation_reason)]]

----------------------------------------------------------------------------
(* The workflow called directly: resolve_violation and escalate_violation  *)
(* on one Violation object of the dataclass, one call at a time            *)

NoCall == [op |-> "none", action |-> "none", ok |-> FALSE, before |-> NewViolation(PENDING)]
IdleRace == [action |-> "none", notes |-> <<>>, by |-> NoUser, reason |-> <<>>]
NothingRead == [escalation_level |-> 0, resolution_notes |-> <<>>]
NotEvaluated == [called |-> FALSE]

(* no call of update_rule or add_custom_rule yet; no pass over the rules *)
NoRuleCall == [op |-> "none"]
IdlePass == [pc |-> "idle"]

(* TeamDrivingCoordinator.__init__: self.active_teams = {} *)
NoTeams == [team_id \in {} |-> 0]
NoTeamCall == [op |-> "none"]

CoordinatorConstructed ==
    /\ active_teams = NoTeams
    /\ handoff_count = NoTeams
    /\ last_team_call = NoTeamCall

(* the workflow has no rule engine *)
NoRuleEngine ==
    /\ registry = [ids |-> <<>>, ref |-> <<>>]
    /\ rule_objects = <<>>
    /\ last_rule_call = NoRuleCall
    /\ rule_calls = 0
    /\ pass = IdlePass

InitWorkflow ==
    /\ \E st \in ViolationStatus : violation = NewViolation(st)
    /\ clock = 1
    /\ last = NoCall
    /\ call = IdleRace
    /\ pcR = "idle"
    /\ pcE = "idle"
    /\ tmpE = NothingRead
    /\ NoRuleEngine
    /\ duty_log = <<>>
    /\ evaluation = NotEvaluated
    /\ CoordinatorConstructed

ResolveViolation ==
    \E action \in Actions, n \in NoteTexts, u \in Users :
        LET r == resolve_violation(violation, n, u, action, clock) IN
        /\ violation' = r.violation
        /\ last' = [op |-> "resolve_violation", action |-> action,
                    ok |-> r.ok, before |-> violation]
        /\ UNCHANGED <<evalVars, ruleVars, teamVars, clock, call, pcR, pcE, tmpE>>

EscalateViolation ==
    /\ violation.escalation_level < MaxEscalations
    /\ \E reason \in Reasons :
        LET r == escalate_violation(violation, reason) IN
        /\ violation' = r.violation
        /\ last' = [op |-> "escalate_violation", action |-> "escalate",
                    ok |-> r.ok, before |-> violation]
        /\ UNCHANGED <<evalVars, ruleVars, teamVars, clock, call, pcR, pcE, tmpE>>

Tick ==
    /\ clock < MaxClock
    /\ clock' = clock + 1
    /\ UNCHANGED <<evalVars, ruleVars, teamVars, violation, last, call, pcR, pcE, tmpE>>

NextWorkflow == ResolveViolation \/ EscalateViolation \/ Tick

SpecWorkflow == InitWorkflow /\ [][NextWorkflow]_vars

----------------------------------------------------------------------------
(* Properties of the workflow *)

IsPrefix(s, t) == Len(s) <= Len(t) /\ SubSeq(t, 1, Len(s)) = s

Called == last.op \in {"resolve_violation", "escalate_violation"}

SameResolution(v, w) ==
    /\ v.resolved_by = w.resolved_by
    /\ v.resolved_at = w.resolved_at
    /\ v.resolution_notes = w.resolution_notes

(* C1: the action "resolve" applied to a Pending violation fails and leaves *)
(* the violation unchanged; "acknowledge" and "escalate" applied to a       *)
(* Pending violation succeed (escalate through either entry point).         *)
C1_ResolveOnPendingFails ==
    /\ (last.op = "resolve_violation" /\ last.before.status = PENDING
            /\ last.action = "resolve")
         => (~last.ok /\ violation = last.before)
    /\ (last.op = "resolve_violation" /\ last.before.status = PENDING
            /\ last.action \in {"acknowledge", "escalate"})
         => last.ok
    /\ (last.op = "escalate_violation" /\ last.before.status = PENDING)
         => last.ok

C1_Witness ==
    /\ last.op = "resolve_violation"
    /\ last.before.status = PENDING
    /\ last.action = "resolve"
    /\ ~last.ok
    /\ violation.status = PENDING

(* C2: every successful action on a Pending violation leaves its status in  *)
(* {In_Review, Disputed, Escalated}: acknowledge gives In_Review, dispute   *)
(* Disputed, escalate Escalated, and none gives Resolved.                   *)
C2_PendingSuccessors ==
    (Called /\ last.ok /\ last.before.status = PENDING)
      => /\ violation.status \in {IN_REVIEW, DISPUTED, ESCALATED}
         /\ last.action = "acknowledge" => violation.status = IN_REVIEW
         /\ last.action = "dispute" => violation.status = DISPUTED
         /\ last.action = "escalate" => violation.status = ESCALATED

(* C3: the only action that succeeds on a Resolved violation is "reopen",   *)
(* and after a successful reopen the status is Pending.                     *)
C3_ResolvedTerminalUnlessReopened ==
    (Called /\ last.ok /\ last.before.status = RESOLVED)
      => /\ last.op = "resolve_violation"
         /\ last.action = "reopen"
         /\ violation.status = PENDING

(* C4: an action that is not in the allow-list of the current state         *)
(* (escalation of a Resolved violation included) fails and leaves status,   *)
(* resolution_notes, resolved_by, resolved_at and escalation_level as they  *)
(* were.                                                                    *)
C4_DisallowedActionNoMutation ==
    (Called /\ last.action \notin workflow_steps[last.before.status])
      => /\ ~last.ok
         /\ violation.status = last.before.status
         /\ violation.escalation_level = last.before.escalation_level
         /\ SameResolution(violation, last.before)

(* C5: the resolution notes are append-only: the notes after an operation   *)
(* have the notes before it as a prefix.                                    *)
C5_NotesAppendOnly ==
    Called => IsPrefix(last.before.resolution_notes, violation.resolution_notes)

(* C6: on a Resolved violation no operation other than a reopen changes     *)
(* resolved_by, resolved_at or the resolution notes.                        *)
C6_ResolvedFieldsImmutable ==
    (Called /\ last.before.status = RESOLVED
        /\ ~(last.op = "resolve_violation" /\ last.action = "reopen"))
      => SameResolution(violation, last.before)

----------------------------------------------------------------------------
(* Two concurrent calls on the same Violation object: one thread runs       *)
(* resolve_violation, the other escalate_violation.  Neither method takes   *)
(* a lock or opens a transaction, so the threads interleave between         *)
(* statements, and inside "+=" between the read and the write.              *)

InitRace ==
    /\ \E st \in ViolationStatus : violation = NewViolation(st)
    /\ clock = 1
    /\ \E action \in Actions, n \in NoteTexts, u \in Users, reason \in Reasons :
          call = [action |-> action, notes |-> n, by |-> u, reason |-> reason]
    /\ last = [op |-> "concurrent", action |-> call.action, ok |-> FALSE,
               before |-> violation]
    /\ pcR = "check"
    /\ pcE = "status"
    /\ tmpE = NothingRead
    /\ NoRuleEngine
    /\ duty_log = <<>>
    /\ evaluation = NotEvaluated
    /\ CoordinatorConstructed

(* if action not in self.workflow_steps.get(violation.status, []): raise *)
R_Check ==
    /\ pcR = "check"
    /\ IF call.action \notin workflow_steps[violation.status]
       THEN pcR' = "done" /\ last' = [last EXCEPT !.ok = FALSE]
       ELSE pcR' = "resolution_notes" /\ last' = [last EXCEPT !.ok = TRUE]
    /\ UNCHANGED <<evalVars, ruleVars, teamVars, violation, clock, call, pcE, tmpE>>

(* violation.resolution_notes = resolution_notes *)
R_SetNotes ==
    /\ pcR = "resolution_notes"
    /\ violation' = [violation EXCEPT !.resolution_notes = call.notes]
    /\ pcR' = "resolved_by"
    /\ UNCHANGED <<evalVars, ruleVars, teamVars, clock, last, call, pcE, tmpE>>

(* violation.resolved_by = resolved_by *)
R_SetResolvedBy ==
    /\ pcR = "resolved_by"
    /\ violation' = [violation EXCEPT !.resolved_by = call.by]
    /\ pcR' = "resolved_at"
    /\ UNCHANGED <<evalVars, ruleVars, teamVars, clock, last, call, pcE, tmpE>>

(* violation.resolved_at = timezone.now() *)
R_SetResolvedAt ==
    /\ pcR = "resolved_at"
    /\ violation' = [violation EXCEPT !.resolved_at = clock]
    /\ pcR' = "status"
    /\ UNCHANGED <<evalVars, ruleVars, teamVars, clock, last, call, pcE, tmpE>>

(* violation.status = ViolationStatus.RESOLVED; return True *)
R_SetStatus ==
    /\ pcR = "status"
    /\ violation' = [violation EXCEPT !.status = RESOLVED]
    /\ pcR' = "done"
    /\ UNCHANGED <<evalVars, ruleVars, teamVars, clock, last, call, pcE, tmpE>>

(* violation.status = ViolationStatus.ESCALATED *)
E_SetStatus ==
    /\ pcE = "status"
    /\ violation' = [violation EXCEPT !.status = ESCALATED]
    /\ pcE' = "read_level"
    /\ UNCHANGED <<evalVars, ruleVars, teamVars, clock, last, call, pcR, tmpE>>

(* violation.escalation_level += 1: the read *)
E_ReadLevel ==
    /\ pcE = "read_level"
    /\ tmpE' = [tmpE EXCEPT !.escalation_level = violation.escalation_level]
    /\ pcE' = "write_level"
    /\ UNCHANGED <<evalVars, ruleVars, teamVars, violation, clock, last, call, pcR>>

(* violation.escalation_level += 1: the write *)
E_WriteLevel ==
    /\ pcE = "write_level"
    /\ violation' = [violation EXCEPT !.escalation_level = tmpE.escalation_level + 1]
    /\ pcE' = "read_notes"
    /\ UNCHANGED <<evalVars, ruleVars, teamVars, clock, last, call, pcR, tmpE>>

(* violation.resolution_notes += f"\nEscalated: {escalation_reason}": the read *)
E_ReadNotes ==
    /\ pcE = "read_notes"
    /\ tmpE' = [tmpE EXCEPT !.resolution_notes = violation.resolution_notes]
    /\ pcE' = "write_notes"
    /\ UNCHANGED <<evalVars, ruleVars, teamVars, violation, clock, last, call, pcR>>

(* violation.resolution_notes += f"\nEscalated: {escalation_reason}": the write; return True *)
E_WriteNotes ==
    /\ pcE = "write_notes"
    /\ violation' = [violation EXCEPT !.resolution_notes =
                         tmpE.resolution_notes \o EscalatedNote(call.reason)]
    /\ pcE' = "done"
    /\ UNCHANGED <<evalVars, ruleVars, teamVars, clock, last, call, pcR, tmpE>>

NextRace ==
    \/ R_Check \/ R_SetNotes \/ R_SetResolvedBy \/ R_SetResolvedAt \/ R_SetStatus
    \/ E_SetStatus \/ E_ReadLevel \/ E_WriteLevel \/ E_ReadNotes \/ E_WriteNotes

SpecRace == InitRace /\ [][NextRace]_vars

(* The fields the two calls are compared on *)
Outcome(v) ==
    [status |-> v.status,
     resolution_notes |-> v.resolution_notes,
     resolved_by |-> v.resolved_by,
     escalation_level |-> v.escalation_level]

(* The two serial orders of the same two calls, from the violation v *)
ResolveThenEscalate(v) ==
    escalate_violation(
        resolve_violation(v, call.notes, call.by, call.action, clock).violation,
        call.reason).violation

EscalateThenResolve(v) ==
    resolve_violation(
        escalate_violation(v, call.reason).violation,
        call.notes, call.by, call.action, clock).violation

(* C7: when a resolve-type call and an escalate call run concurrently on    *)
(* the same violation, the final status, notes, resolved_by and             *)
(* escalation_level are those of one of the two serial orders of the calls. *)
C7_ConcurrentCallsSerializable ==
    (pcR = "done" /\ pcE = "done")
      => Outcome(violation) \in {Outcome(ResolveThenEscalate(last.before)),
                                 Outcome(EscalateThenResolve(last.before))}

----------------------------------------------------------------------------
(* class AdvancedHOSComplianceEngine                                        *)
(*                                                                          *)
(* Times are counted in half-hours, the smallest duration the engine names  *)
(* (timedelta(minutes=30)).  On that grid total_seconds() / 3600 is a       *)
(* multiple of 0.5, which float, str and Decimal all represent exactly, so  *)
(* Decimal(str(duration.total_seconds() / 3600)) is the number of           *)
(* half-hours divided by two; an hour count is held as its number of        *)
(* half-hours.                                                              *)

HalfHour == 1
Hour == 2 * HalfHour
Day == 24 * Hour

(* class DutyStatus *)
OFF_DUTY == "off_duty"
SLEEPER_BERTH == "sleeper_berth"
DRIVING == "driving"
ON_DUTY_NOT_DRIVING == "on_duty_not_driving"

(* class ViolationSeverity *)
MINOR == "minor"
MAJOR == "major"
CRITICAL == "critical"

(* class CycleType *)
SEVENTY_EIGHT == "70_8"
SIXTY_SEVEN == "60_7"
THIRTY_FOUR_HOUR == "34_hour"
CycleType == {SEVENTY_EIGHT, SIXTY_SEVEN, THIRTY_FOUR_HOUR}

(* class TeamDrivingRole, and team_driving_info = None *)
DRIVER_1 == "driver_1"
DRIVER_2 == "driver_2"
RELIEF_DRIVER == "relief_driver"
NoTeam == [current_driver |-> "None"]

(* entry['end_time'] of an entry that is still open (None) *)
NoEnd == -1

(* HOS_LIMITS: the fields of HOSLimits the engine reads *)
HOS_LIMITS ==
    [c \in CycleType |->
        [cycle_hours |-> IF c = SIXTY_SEVEN THEN 60 * Hour ELSE 70 * Hour,
         cycle_days |-> IF c = SIXTY_SEVEN THEN 7 ELSE 8,
         min_34_hour_restart_hours |-> 34 * Hour]]

(* HOSRuleEngine._load_default_rules, in registration order *)
RuleIds == <<"driving_limit_11_hours", "on_duty_limit_14_hours", "30_min_break_requirement",
             "cycle_hours_limit", "34_hour_restart", "sleeper_berth_split">>

default_rules ==
    [driving_limit_11_hours |->
        [severity |-> MAJOR, enabled |-> TRUE, parameters |-> [max_hours |-> 11 * Hour]],
     on_duty_limit_14_hours |->
        [severity |-> MAJOR, enabled |-> TRUE, parameters |-> [max_hours |-> 14 * Hour]],
     30_min_break_requirement |->
        [severity |-> MAJOR, enabled |-> TRUE,
         parameters |-> [break_threshold |-> 8 * Hour, min_break |-> HalfHour]],
     cycle_hours_limit |->
        [severity |-> CRITICAL, enabled |-> TRUE,
         parameters |-> [cycle_hours |-> 70 * Hour, cycle_days |-> 8]],
     34_hour_restart |->
        [severity |-> CRITICAL, enabled |-> TRUE, parameters |-> [min_hours |-> 34 * Hour]],
     sleeper_berth_split |->
        [severity |-> MINOR, enabled |-> TRUE,
         parameters |-> [min_first_period |-> 2 * Hour, min_second_period |-> 2 * Hour]]]

OnDutyStatuses == {DRIVING, ON_DUTY_NOT_DRIVING}

(* entry['end_time'] - entry['start_time'] as a Decimal hour count *)
DurationHours(entry) == entry.end_time - entry.start_time

(* sorted(log_entries, key=lambda x: x['start_time']): a stable sort *)
RECURSIVE InsertByStart(_, _)
InsertByStart(sorted, entry) ==
    IF sorted = <<>> THEN <<entry>>
    ELSE IF sorted[Len(sorted)].start_time <= entry.start_time
         THEN Append(sorted, entry)
         ELSE Append(InsertByStart(SubSeq(sorted, 1, Len(sorted) - 1), entry),
                     sorted[Len(sorted)])

RECURSIVE SortedByStart(_)
SortedByStart(log_entries) ==
    IF log_entries = <<>> THEN <<>>
    ELSE InsertByStart(SortedByStart(SubSeq(log_entries, 1, Len(log_entries) - 1)),
                       log_entries[Len(log_entries)])

(* total of the Decimal hours of the entries of a list *)
RECURSIVE SumHours(_)
SumHours(seq) ==
    IF seq = <<>> THEN 0
    ELSE DurationHours(Head(seq)) + SumHours(Tail(seq))

IsDriving(entry) == entry.duty_status = DRIVING
IsOnDuty(entry) == entry.duty_status \in OnDutyStatuses

(* _is_valid_34_hour_restart *)
IsValid34HourRestart(off_duty_entry, all_entries) ==
    /\ off_duty_entry.end_time # NoEnd
    /\ off_duty_entry.end_time - off_duty_entry.start_time >= 34 * Hour
    /\ ~ \E i \in 1..Len(all_entries) :
            /\ all_entries[i].start_time > off_duty_entry.start_time
            /\ all_entries[i].end_time < off_duty_entry.end_time
            /\ all_entries[i].duty_status \in OnDutyStatuses

(* _calculate_advanced_cycle_start *)
CalculateAdvancedCycleStart_FirstRestart(log_entries, current_time, limits) ==
    LET max_cycle_start == current_time - limits.cycle_days * Day
        restarts == {i \in 1..Len(log_entries) :
                        /\ log_entries[i].duty_status = OFF_DUTY
                        /\ log_entries[i].end_time # NoEnd
                        /\ IsValid34HourRestart(log_entries[i], log_entries)}
        First(S) == CHOOSE i \in S : \A j \in S : j >= i
        cycle_start == IF restarts = {} THEN max_cycle_start
                       ELSE log_entries[First(restarts)].end_time
    IN  IF cycle_start < max_cycle_start THEN max_cycle_start ELSE cycle_start

CalculateAdvancedCycleStart_Unclamped(log_entries, current_time, limits) ==
    LET max_cycle_start == current_time - limits.cycle_days * Day
        restarts == {i \in 1..Len(log_entries) :
                        /\ log_entries[i].duty_status = OFF_DUTY
                        /\ log_entries[i].end_time # NoEnd
                        /\ IsValid34HourRestart(log_entries[i], log_entries)}
        Last(S) == CHOOSE i \in S : \A j \in S : j <= i
    IN  IF restarts = {} THEN max_cycle_start
        ELSE log_entries[Last(restarts)].end_time

CalculateAdvancedCycleStart(log_entries, current_time, limits) ==
    LET max_cycle_start == current_time - limits.cycle_days * Day
        restarts == {i \in 1..Len(log_entries) :
                        /\ log_entries[i].duty_status = OFF_DUTY
                        /\ log_entries[i].end_time # NoEnd
                        /\ IsValid34HourRestart(log_entries[i], log_entries)}
        Last(S) == CHOOSE i \in S : \A j \in S : j <= i
        cycle_start == IF restarts = {} THEN max_cycle_start
                       ELSE log_entries[Last(restarts)].end_time
    IN  IF cycle_start < max_cycle_start THEN max_cycle_start ELSE cycle_start

(* SleeperBerthPeriod(...) as _calculate_sleeper_berth_periods builds it *)
NewSleeperBerthPeriod(entry, current_time, limits) ==
    LET hours == IF entry.end_time # NoEnd THEN entry.end_time - entry.start_time
                 ELSE current_time - entry.start_time
    IN  [start_time |-> entry.start_time,
         end_time |-> entry.end_time,
         duration_hours |-> hours,
         is_valid_for_restart |-> hours >= limits.min_34_hour_restart_hours,
         split_berth_period |-> FALSE]

(* the test _validate_split_sleeper_berth applies to two adjacent periods *)
QualifiesAsSplit(current_period, next_period) ==
    /\ next_period.start_time - current_period.end_time <= 24 * Hour
    /\ current_period.duration_hours >= 2 * Hour
    /\ next_period.duration_hours >= 2 * Hour
    /\ current_period.duration_hours + next_period.duration_hours >= 8 * Hour

ValidateSplitSleeperBerth_LastPairDecides(sleeper_periods) ==
    IF Len(sleeper_periods) < 2 THEN sleeper_periods
    ELSE [i \in 1..Len(sleeper_periods) |->
            [sleeper_periods[i] EXCEPT !.split_berth_period =
                IF i < Len(sleeper_periods)
                THEN QualifiesAsSplit(sleeper_periods[i], sleeper_periods[i + 1])
                ELSE QualifiesAsSplit(sleeper_periods[i - 1], sleeper_periods[i])]]

ValidateSplitSleeperBerth_FlagsAll(sleeper_periods) ==
    IF Len(sleeper_periods) < 2 THEN sleeper_periods
    ELSE [i \in 1..Len(sleeper_periods) |->
            [sleeper_periods[i] EXCEPT !.split_berth_period = TRUE]]

(* _validate_split_sleeper_berth.  The periods arrive sorted by start time  *)
(* (they are built from the sorted entries), so the stable sort inside      *)
(* leaves their order; period i is flagged by the pair before or after it.  *)
ValidateSplitSleeperBerth(sleeper_periods) ==
    IF Len(sleeper_periods) < 2 THEN sleeper_periods
    ELSE [i \in 1..Len(sleeper_periods) |->
            [sleeper_periods[i] EXCEPT !.split_berth_period =
                \/ (i > 1 /\ QualifiesAsSplit(sleeper_periods[i - 1], sleeper_periods[i]))
                \/ (i < Len(sleeper_periods)
                      /\ QualifiesAsSplit(sleeper_periods[i], sleeper_periods[i + 1]))]]

(* _calculate_sleeper_berth_periods *)
CalculateSleeperBerthPeriods(log_entries, current_time, limits) ==
    LET IsSleeper(entry) == entry.duty_status = SLEEPER_BERTH
        sleeper_entries == SelectSeq(log_entries, IsSleeper)
    IN  ValidateSplitSleeperBerth(
            [i \in 1..Len(sleeper_entries) |->
                NewSleeperBerthPeriod(sleeper_entries[i], current_time, limits)])

(* _calculate_cycle_hours *)
CalculateCycleHours(cycle_entries) == SumHours(SelectSeq(cycle_entries, IsOnDuty))

(* _get_last_30_min_break: the end of the last OffDuty entry of at least    *)
(* 30 minutes, NoEnd for None                                               *)
GetLast30MinBreak(log_entries) ==
    LET breaks == {i \in 1..Len(log_entries) :
                      /\ log_entries[i].duty_status = OFF_DUTY
                      /\ log_entries[i].end_time # NoEnd
                      /\ log_entries[i].end_time - log_entries[i].start_time >= HalfHour}
    IN  IF breaks = {} THEN NoEnd
        ELSE log_entries[CHOOSE i \in breaks : \A j \in breaks : j <= i].end_time

(* _calculate_driving_hours_since_break *)
CalculateDrivingHoursSinceBreak_AllDriving(log_entries) ==
    SumHours(SelectSeq(log_entries, IsDriving))

CalculateDrivingHoursSinceBreak(log_entries) ==
    LET last_break == GetLast30MinBreak(log_entries)
        SinceBreak(entry) == IsDriving(entry) /\ entry.start_time >= last_break
    IN  IF last_break = NoEnd
        THEN SumHours(SelectSeq(log_entries, IsDriving))
        ELSE SumHours(SelectSeq(log_entries, SinceBreak))

(* _calculate_on_duty_hours_since_break *)
CalculateOnDutyHoursSinceBreak(cycle_entries, current_time) ==
    LET breaks == {i \in 1..Len(cycle_entries) :
                      /\ cycle_entries[i].duty_status = OFF_DUTY
                      /\ cycle_entries[i].end_time # NoEnd
                      /\ cycle_entries[i].end_time - cycle_entries[i].start_time >= 10 * Hour}
        cutoff_time == IF breaks = {} THEN current_time - 14 * Hour
                       ELSE cycle_entries[CHOOSE i \in breaks : \A j \in breaks : j <= i].end_time
        SinceBreak(entry) == IsOnDuty(entry) /\ entry.start_time >= cutoff_time
    IN  SumHours(SelectSeq(cycle_entries, SinceBreak))

(* Violation(...) as the rule checks build it *)
NewEngineViolation(violation_type, severity, occurred_at) ==
    [violation_type |-> violation_type, severity |-> severity, occurred_at |-> occurred_at]

(* A rule check gives the violations it found, or raises.                   *)
Found(violations) == [raised |-> FALSE, violations |-> violations]
Raises == [raised |-> TRUE, violations |-> <<>>]

(* _check_driving_limit_rule.  For an entry over the limit the Violation    *)
(* is built with duration_over = timedelta(hours=float(hours - max_hours)); *)
(* hours is a Decimal and max_hours a float, and Decimal - float raises     *)
(* TypeError, so the check never returns a driving_over_11 violation.       *)
CheckDrivingLimitRule(rule_config, cycle_entries) ==
    LET max_hours == rule_config.parameters.max_hours
        Over(entry) == IsDriving(entry) /\ DurationHours(entry) > max_hours
    IN  IF SelectSeq(cycle_entries, Over) # <<>> THEN Raises ELSE Found(<<>>)

(* _check_on_duty_limit_rule: the same subtraction as the driving rule *)
CheckOnDutyLimitRule(rule_config, cycle_entries) ==
    LET max_hours == rule_config.parameters.max_hours
        Over(entry) == IsOnDuty(entry) /\ DurationHours(entry) > max_hours
    IN  IF SelectSeq(cycle_entries, Over) # <<>> THEN Raises ELSE Found(<<>>)

(* _check_30_min_break_rule *)
Check30MinBreakRule(rule_config, cycle_entries, current_time) ==
    IF CalculateDrivingHoursSinceBreak(cycle_entries) > rule_config.parameters.break_threshold
    THEN Found(<<NewEngineViolation("no_30_min_break", rule_config.severity, current_time)>>)
    ELSE Found(<<>>)

(* The Python type of the numbers in the parameters of a rule: float in    *)
(* the default rules (11.0, 70.0, ...); an update can store an int.         *)
NumberType(rule_config) ==
    IF "number_type" \in DOMAIN rule_config THEN rule_config.number_type ELSE "float"

(* _check_cycle_hours_rule.  The description of the violation formats       *)
(* total_hours - cycle_hours: Decimal - float raises TypeError, Decimal -   *)
(* int does not.  occurred_at is the end of the last cycle entry or, with   *)
(* no cycle entries, datetime.now(): the wall clock, not current_time.      *)
CheckCycleHoursRule(rule_config, cycle_entries, wall_clock) ==
    IF CalculateCycleHours(cycle_entries) > rule_config.parameters.cycle_hours
    THEN IF NumberType(rule_config) = "float" THEN Raises
         ELSE Found(<<NewEngineViolation(
                        "cycle_hours_exceeded", rule_config.severity,
                        IF cycle_entries # <<>>
                        THEN cycle_entries[Len(cycle_entries)].end_time
                        ELSE wall_clock)>>)
    ELSE Found(<<>>)

(* _check_34_hour_restart_rule: one violation per completed OffDuty entry   *)
(* shorter than min_hours                                                   *)
Check34HourRestartRule_OnlyLongBreaks(rule_config, cycle_entries) ==
    LET Short(entry) == /\ entry.duty_status = OFF_DUTY
                        /\ entry.end_time # NoEnd
                        /\ entry.end_time - entry.start_time >= 10 * Hour
                        /\ entry.end_time - entry.start_time < rule_config.parameters.min_hours
        short == SelectSeq(cycle_entries, Short)
    IN  Found([i \in 1..Len(short) |->
                 NewEngineViolation("invalid_34_hour_restart", rule_config.severity,
                                    short[i].start_time)])

Check34HourRestartRule(rule_config, cycle_entries) ==
    LET Short(entry) == /\ entry.duty_status = OFF_DUTY
                        /\ entry.end_time # NoEnd
                        /\ entry.end_time - entry.start_time < rule_config.parameters.min_hours
        short == SelectSeq(cycle_entries, Short)
    IN  Found([i \in 1..Len(short) |->
                 NewEngineViolation("invalid_34_hour_restart", rule_config.severity,
                                    short[i].start_time)])

(* _check_sleeper_berth_split_rule *)
CheckSleeperBerthSplitRule(rule_config, sleeper_berth_periods) ==
    LET IsSplit(period) == period.split_berth_period
        split_periods == SelectSeq(sleeper_berth_periods, IsSplit)
    IN  IF Len(split_periods) >= 2
        THEN Found(
              (IF split_periods[1].duration_hours < rule_config.parameters.min_first_period
               THEN <<NewEngineViolation("invalid_split_berth_first", rule_config.severity,
                                         split_periods[1].start_time)>>
               ELSE <<>>)
              \o
              (IF split_periods[2].duration_hours < rule_config.parameters.min_second_period
               THEN <<NewEngineViolation("invalid_split_berth_second", rule_config.severity,
                                         split_periods[2].start_time)>>
               ELSE <<>>))
        ELSE Found(<<>>)

(* _check_rule_violation *)
CheckRuleViolation(rule_id, rule_config, cycle_entries, current_time, sleeper_berth_periods, wall_clock) ==
    CASE rule_id = "driving_limit_11_hours" ->
            CheckDrivingLimitRule(rule_config, cycle_entries)
      [] rule_id = "on_duty_limit_14_hours" ->
            CheckOnDutyLimitRule(rule_config, cycle_entries)
      [] rule_id = "30_min_break_requirement" ->
            Check30MinBreakRule(rule_config, cycle_entries, current_time)
      [] rule_id = "cycle_hours_limit" ->
            CheckCycleHoursRule(rule_config, cycle_entries, wall_clock)
      [] rule_id = "34_hour_restart" ->
            Check34HourRestartRule(rule_config, cycle_entries)
      [] rule_id = "sleeper_berth_split" ->
            CheckSleeperBerthSplitRule(rule_config, sleeper_berth_periods)
      [] OTHER -> Found(<<>>)

(* _check_advanced_violations: the enabled rules in registration order; an  *)
(* exception of one check ends the whole pass.                              *)
RECURSIVE CheckRulesFrom(_, _, _, _, _, _)
CheckRulesFrom(k, rules, cycle_entries, current_time, sleeper_berth_periods, wall_clock) ==
    IF k > Len(RuleIds) THEN Found(<<>>)
    ELSE LET rule_config == rules[RuleIds[k]]
             this == IF rule_config.enabled
                     THEN CheckRuleViolation(RuleIds[k], rule_config, cycle_entries,
                                             current_time, sleeper_berth_periods, wall_clock)
                     ELSE Found(<<>>)
             rest == CheckRulesFrom(k + 1, rules, cycle_entries, current_time,
                                    sleeper_berth_periods, wall_clock)
         IN  IF this.raised \/ rest.raised THEN Raises
             ELSE Found(this.violations \o rest.violations)

CheckAdvancedViolations(rules, cycle_entries, current_time, sleeper_berth_periods, wall_clock) ==
    CheckRulesFrom(1, rules, cycle_entries, current_time, sleeper_berth_periods, wall_clock)

HasSeverity(violations, severities) ==
    \E i \in 1..Len(violations) : violations[i].severity \in severities

(* _can_drive_advanced *)
CanDriveAdvanced_NoOnDutyLimit(cycle_entries, current_time, violations, team_driving_info) ==
    IF HasSeverity(violations, {CRITICAL}) THEN FALSE
    ELSE IF team_driving_info # NoTeam /\ team_driving_info.current_driver # DRIVER_1
         THEN FALSE
    ELSE IF CalculateDrivingHoursSinceBreak(cycle_entries) >= 11 * Hour THEN FALSE
    ELSE TRUE

CanDriveAdvanced(cycle_entries, current_time, violations, team_driving_info) ==
    IF HasSeverity(violations, {CRITICAL}) THEN FALSE
    ELSE IF team_driving_info # NoTeam /\ team_driving_info.current_driver # DRIVER_1
         THEN FALSE
    ELSE IF CalculateDrivingHoursSinceBreak(cycle_entries) >= 11 * Hour THEN FALSE
    ELSE IF CalculateOnDutyHoursSinceBreak(cycle_entries, current_time) >= 14 * Hour THEN FALSE
    ELSE TRUE

(* _can_be_on_duty_advanced *)
CanBeOnDutyAdvanced_CriticalInverted(cycle_entries, current_time, violations) ==
    IF ~HasSeverity(violations, {CRITICAL}) THEN FALSE
    ELSE IF CalculateOnDutyHoursSinceBreak(cycle_entries, current_time) >= 14 * Hour THEN FALSE
    ELSE TRUE

CanBeOnDutyAdvanced(cycle_entries, current_time, violations) ==
    IF HasSeverity(violations, {CRITICAL}) THEN FALSE
    ELSE IF CalculateOnDutyHoursSinceBreak(cycle_entries, current_time) >= 14 * Hour THEN FALSE
    ELSE TRUE

(* _needs_rest_advanced *)
NeedsRestAdvanced_ViolationsOnly(cycle_entries, current_time, violations) ==
    HasSeverity(violations, {MAJOR, CRITICAL})

NeedsRestAdvanced(cycle_entries, current_time, violations) ==
    IF HasSeverity(violations, {MAJOR, CRITICAL}) THEN TRUE
    ELSE \/ CalculateDrivingHoursSinceBreak(cycle_entries) >= 10 * Hour
         \/ CalculateOnDutyHoursSinceBreak(cycle_entries, current_time) >= 13 * Hour

(* The ways _calculate_compliance_analytics fails: days_span is             *)
(* (current_time - log_entries[0]['start_time']).days + 1, which is 0 when  *)
(* the first entry starts up to a day after current_time, and               *)
(* restart_count / days_span then divides by zero; the daily-hours loop     *)
(* subtracts start_time from end_time of every entry, None included.        *)
ComplianceAnalyticsRaises(log_entries, current_time) ==
    /\ log_entries # <<>>
    /\ \/ ((current_time - log_entries[1].start_time) \div Day) + 1 = 0
       \/ \E i \in 1..Len(log_entries) : log_entries[i].end_time = NoEnd

(* _get_advanced_restart_recommendations, 'last_restart': the end of the    *)
(* first sleeper-berth period that is valid for a restart, NoEnd for None   *)
LastRestart(sleeper_berth_periods) ==
    LET valid == {i \in 1..Len(sleeper_berth_periods) :
                     sleeper_berth_periods[i].is_valid_for_restart}
    IN  IF valid = {} THEN NoEnd
        ELSE sleeper_berth_periods[CHOOSE i \in valid : \A j \in valid : i <= j].end_time

(* hours_available = self.limits.cycle_hours - hours_used *)
HoursAvailable_Clamped(limits, hours_used) ==
    IF limits.cycle_hours - hours_used < 0 THEN 0 ELSE limits.cycle_hours - hours_used

HoursAvailable(limits, hours_used) == limits.cycle_hours - hours_used

(* cycle_entries = [entry for entry in sorted_entries                       *)
(*                  if entry['start_time'] >= cycle_start]                  *)
CycleEntries_ByEndTime(sorted_entries, cycle_start) ==
    LET InCycle(entry) == entry.end_time >= cycle_start
    IN  SelectSeq(sorted_entries, InCycle)

CycleEntries(sorted_entries, cycle_start) ==
    LET InCycle(entry) == entry.start_time >= cycle_start
    IN  SelectSeq(sorted_entries, InCycle)

(* calculate_advanced_hos_status of an engine of the given cycle type and   *)
(* rules.  Every exception the engine raises leaves the call without a      *)
(* HOSStatus; an entry without end_time raises in the analytics at the      *)
(* latest, so the arithmetic before it is only reported for closed entries. *)
CalculateAdvancedHOSStatus(log_entries, current_time, team_driving_info, cycle_type, rules, wall_clock) ==
    LET limits == HOS_LIMITS[cycle_type]
        sorted_entries == SortedByStart(log_entries)
        cycle_start == CalculateAdvancedCycleStart(sorted_entries, current_time, limits)
        sleeper_berth_periods ==
            CalculateSleeperBerthPeriods(sorted_entries, current_time, limits)
        cycle_entries == CycleEntries(sorted_entries, cycle_start)
        hours_used == CalculateCycleHours(cycle_entries)
        hours_available == HoursAvailable(limits, hours_used)
        checked == CheckAdvancedViolations(rules, cycle_entries, current_time,
                                           sleeper_berth_periods, wall_clock)
    IN  IF checked.raised \/ ComplianceAnalyticsRaises(sorted_entries, current_time)
        THEN [outcome |-> "raised"]
        ELSE [outcome |-> "returned",
              can_drive |-> CanDriveAdvanced(cycle_entries, current_time,
                                             checked.violations, team_driving_info),
              can_be_on_duty |-> CanBeOnDutyAdvanced(cycle_entries, current_time,
                                                     checked.violations),
              needs_rest |-> NeedsRestAdvanced(cycle_entries, current_time,
                                               checked.violations),
              hours_used_this_cycle |-> hours_used,
              hours_available |-> hours_available,
              violations |-> checked.violations,
              cycle_type |-> cycle_type,
              cycle_start_date |-> cycle_start,
              sleeper_berth_periods |-> sleeper_berth_periods,
              restart_recommendations |->
                  [last_restart |-> LastRestart(sleeper_berth_periods)]]

----------------------------------------------------------------------------
(* The rule registry.  HOSRuleEngine.rules is a dictionary from rule ids to *)
(* rule_config dictionaries; the registry keeps the ids in insertion order  *)
(* and, for each id, the rule_config object it refers to, and rule_objects  *)
(* holds the contents of the objects.                                       *)

(* HOSRuleEngine.__init__: the default rules, one object each *)
DefaultRegistry ==
    [ids |-> RuleIds, ref |-> [id \in {RuleIds[k] : k \in 1..Len(RuleIds)} |->
                                 CHOOSE k \in 1..Len(RuleIds) : RuleIds[k] = id]]

DefaultRuleObjects == [k \in 1..Len(RuleIds) |-> default_rules[RuleIds[k]]]

RuleEngineConstructed ==
    /\ registry = DefaultRegistry
    /\ rule_objects = DefaultRuleObjects
    /\ last_rule_call = NoRuleCall
    /\ rule_calls = 0
    /\ pass = IdlePass

----------------------------------------------------------------------------
(* The engine at work: entries are logged, and the log is evaluated for a   *)
(* current time, a cycle type and an optional team, by an engine with the   *)
(* default rules.                                                           *)

Entry(start_time, end_time, duty_status) ==
    [start_time |-> start_time, end_time |-> end_time, duty_status |-> duty_status]

(* The evaluation time, and the entries a driver logs, in half-hours:       *)
(*   14 h on duty ending at 400;                                            *)
(*   10 h of driving, ending before the restart below ends;                 *)
(*   36 h off duty, a 34-hour restart, ending at 348;                       *)
(*   12 h of driving that starts inside the 8-day window of 400 (from 16)   *)
(*   and before its 7-day window (from 64).                                 *)
EvaluationTimes == {400}

LoggedEntries ==
    {Entry(372, 400, ON_DUTY_NOT_DRIVING),
     Entry(250, 270, DRIVING),
     Entry(276, 348, OFF_DUTY),
     Entry(30, 54, DRIVING)}

Teams == {NoTeam, [current_driver |-> DRIVER_1], [current_driver |-> DRIVER_2]}

InitEval ==
    /\ duty_log = <<>>
    /\ evaluation = NotEvaluated
    /\ violation = NewViolation(PENDING)
    /\ clock = 1
    /\ last = NoCall
    /\ call = IdleRace
    /\ pcR = "idle"
    /\ pcE = "idle"
    /\ tmpE = NothingRead
    /\ RuleEngineConstructed
    /\ CoordinatorConstructed

LogEntry ==
    /\ Len(duty_log) < MaxEntries
    /\ \E entry \in LoggedEntries : duty_log' = Append(duty_log, entry)
    /\ evaluation' = NotEvaluated
    /\ UNCHANGED <<wfVars, raceVars, ruleVars, teamVars>>

Evaluate ==
    /\ \E current_time \in EvaluationTimes, cycle_type \in CycleType, team \in Teams :
          evaluation' =
              [called |-> TRUE,
               current_time |-> current_time,
               cycle_type |-> cycle_type,
               team_driving_info |-> team,
               status |-> CalculateAdvancedHOSStatus(duty_log, current_time, team,
                                                     cycle_type, default_rules, clock)]
    /\ UNCHANGED <<duty_log, wfVars, raceVars, ruleVars, teamVars>>

NextEval == LogEntry \/ Evaluate

SpecEval == InitEval /\ [][NextEval]_vars

Returned == evaluation.called /\ evaluation.status.outcome = "returned"

(* C8: for every result the evaluation returns, hours_used_this_cycle +     *)
(* hours_available equals the cycle_hours of the cycle type (70 h for 70/8, *)
(* 60 h for 60/7).                                                          *)
C8_HoursConservation ==
    Returned =>
        /\ evaluation.status.hours_used_this_cycle + evaluation.status.hours_available
              = HOS_LIMITS[evaluation.cycle_type].cycle_hours
        /\ HOS_LIMITS[evaluation.cycle_type].cycle_hours
              = IF evaluation.cycle_type = SIXTY_SEVEN THEN 60 * Hour ELSE 70 * Hour

C8_Witness ==
    /\ Returned
    /\ evaluation.cycle_type = SIXTY_SEVEN
    /\ evaluation.status.hours_used_this_cycle > 60 * Hour

(* C9: hours_available of a returned result is never negative, also when    *)
(* the on-duty plus driving hours of the cycle exceed the cycle_hours.      *)
C9_HoursAvailableNotNegative ==
    Returned => evaluation.status.hours_available >= 0

(* C10: evaluating an empty log gives can_drive, can_be_on_duty, no         *)
(* needs_rest, no violations, 0 hours used and the full cycle_hours         *)
(* available, for every evaluation time (can_drive for a call without team  *)
(* info, as in the engine's own test of the empty log).                     *)
C10_EmptyLog ==
    (evaluation.called /\ duty_log = <<>>) =>
        /\ evaluation.status.outcome = "returned"
        /\ evaluation.team_driving_info = NoTeam => evaluation.status.can_drive
        /\ evaluation.status.can_be_on_duty
        /\ ~evaluation.status.needs_rest
        /\ evaluation.status.violations = <<>>
        /\ evaluation.status.hours_used_this_cycle = 0
        /\ evaluation.status.hours_available = HOS_LIMITS[evaluation.cycle_type].cycle_hours
        /\ evaluation.cycle_type = SEVENTY_EIGHT => evaluation.status.hours_available = 70 * Hour

C10_Witness ==
    /\ evaluation.called
    /\ duty_log = <<>>
    /\ evaluation.team_driving_info = NoTeam
    /\ evaluation.cycle_type = SEVENTY_EIGHT
    /\ evaluation.status.outcome = "returned"
    /\ evaluation.status.can_drive

(* The entries of the evaluated log that the evaluation scopes to the cycle *)
CycleStartOfEvaluation ==
    CalculateAdvancedCycleStart(SortedByStart(duty_log), evaluation.current_time,
                                HOS_LIMITS[evaluation.cycle_type])

CycleScoped(i) == duty_log[i].start_time >= CycleStartOfEvaluation

CountOfType(violations, violation_type) ==
    Cardinality({i \in 1..Len(violations) : violations[i].violation_type = violation_type})

DrivingOverEleven ==
    {i \in 1..Len(duty_log) :
        /\ CycleScoped(i)
        /\ duty_log[i].duty_status = DRIVING
        /\ duty_log[i].end_time - duty_log[i].start_time > 11 * Hour}

(* C11: an evaluation returns a result with exactly one driving_over_11     *)
(* violation for each cycle-scoped Driving interval longer than 11 hours    *)
(* and none for shorter ones; with such an interval (a log of a single      *)
(* 12-hour Driving interval, say) the result has can_drive = false.         *)
C11_DrivingOverElevenPerInterval ==
    evaluation.called =>
        /\ (DrivingOverEleven # {} /\ Len(duty_log) = 1) => Returned
        /\ Returned =>
              /\ CountOfType(evaluation.status.violations, "driving_over_11")
                    = Cardinality(DrivingOverEleven)
              /\ DrivingOverEleven # {} => ~evaluation.status.can_drive

----------------------------------------------------------------------------
(* Shifts and restarts: a log drawn from long on-duty shifts and 34-hour    *)
(* restarts, evaluated as above.  In half-hours, for an evaluation at 400:  *)
(*   15 h on duty ending at the evaluation time;                            *)
(*   36 h off duty ending at 348, a 34-hour restart;                        *)
(*   5 h of driving nested in that off-duty interval;                       *)
(*   10 h of driving that ends before the restart starts;                   *)
(*   5 h of driving after the restart;                                      *)
(*   36 h off duty ending at 2, before the 8-day (16) and the 7-day (64)    *)
(*   window starts.                                                         *)
ShiftEntries ==
    {Entry(370, 400, ON_DUTY_NOT_DRIVING),
     Entry(276, 348, OFF_DUTY),
     Entry(300, 310, DRIVING),
     Entry(250, 270, DRIVING),
     Entry(380, 390, DRIVING),
     Entry(-70, 2, OFF_DUTY),
     Entry(340, 352, DRIVING)}

LogShiftEntry ==
    /\ Len(duty_log) < MaxShiftEntries
    /\ \E entry \in ShiftEntries : duty_log' = Append(duty_log, entry)
    /\ evaluation' = NotEvaluated
    /\ UNCHANGED <<wfVars, raceVars, ruleVars, teamVars>>

NextShifts == LogShiftEntry \/ Evaluate

SpecShifts == InitEval /\ [][NextShifts]_vars

(* C12: a log of a single OnDutyNotDriving interval longer than 14 hours    *)
(* (15 hours ending at the evaluation time, say) evaluates to a result with *)
(* an on_duty_over_14 violation and can_be_on_duty = false.                 *)
C12_OnDutyOverFourteen ==
    (/\ evaluation.called
     /\ Len(duty_log) = 1
     /\ duty_log[1].duty_status = ON_DUTY_NOT_DRIVING
     /\ duty_log[1].end_time - duty_log[1].start_time > 14 * Hour)
    => /\ Returned
       /\ CountOfType(evaluation.status.violations, "on_duty_over_14") >= 1
       /\ ~evaluation.status.can_be_on_duty

(* C13: for every cycle type, the result of an evaluation has a             *)
(* cycle_hours_exceeded violation exactly when the on-duty plus driving     *)
(* hours of the cycle-scoped intervals exceed the cycle_hours of that cycle *)
(* type (70 h for 70/8, 60 h for 60/7).                                     *)
C13_CycleHoursExceeded ==
    Returned =>
        (CountOfType(evaluation.status.violations, "cycle_hours_exceeded") >= 1
           <=> evaluation.status.hours_used_this_cycle
                  > HOS_LIMITS[evaluation.cycle_type].cycle_hours)

(* The valid restarts of the evaluated log: completed OffDuty intervals of  *)
(* at least 34 hours with no Driving or OnDutyNotDriving interval nested in *)
(* them; and the most recent of them.                                       *)
NestedOnDuty(i) ==
    \E j \in 1..Len(duty_log) :
        /\ duty_log[j].duty_status \in {DRIVING, ON_DUTY_NOT_DRIVING}
        /\ duty_log[j].start_time > duty_log[i].start_time
        /\ duty_log[j].end_time < duty_log[i].end_time

ValidRestarts ==
    {i \in 1..Len(duty_log) :
        /\ duty_log[i].duty_status = OFF_DUTY
        /\ duty_log[i].end_time # NoEnd
        /\ duty_log[i].end_time - duty_log[i].start_time >= 34 * Hour
        /\ ~NestedOnDuty(i)}

MostRecentRestarts ==
    {i \in ValidRestarts :
        \A j \in ValidRestarts : duty_log[j].start_time <= duty_log[i].start_time}

WindowStart == evaluation.current_time - HOS_LIMITS[evaluation.cycle_type].cycle_days * Day

OnDutyHoursFrom(time) ==
    LET Counts(entry) == /\ entry.duty_status \in {DRIVING, ON_DUTY_NOT_DRIVING}
                         /\ entry.start_time >= time
    IN  SumHours(SelectSeq(duty_log, Counts))

(* C14: when the most recent valid restart of the log ends inside the cycle *)
(* window, the cycle start of the result is its end time, and               *)
(* hours_used_this_cycle counts no Driving or OnDutyNotDriving interval     *)
(* that started before that end: it is the hours of those that started at   *)
(* or after it (0 if there are none).                                       *)
C14_RestartResetsCycle ==
    Returned =>
        \A i \in MostRecentRestarts :
            duty_log[i].end_time >= WindowStart =>
                /\ evaluation.status.cycle_start_date = duty_log[i].end_time
                /\ evaluation.status.hours_used_this_cycle
                      = OnDutyHoursFrom(duty_log[i].end_time)

C14_Witness ==
    /\ Returned
    /\ \E i \in MostRecentRestarts :
          /\ duty_log[i].end_time >= WindowStart
          /\ evaluation.status.cycle_start_date = duty_log[i].end_time
          /\ \E j \in 1..Len(duty_log) :
                /\ duty_log[j].duty_status = DRIVING
                /\ duty_log[j].start_time < duty_log[i].end_time
    /\ evaluation.status.hours_used_this_cycle > 0
    /\ evaluation.status.hours_used_this_cycle < OnDutyHoursFrom(WindowStart)

(* C15: an OffDuty interval of 36 continuous hours with no on-duty activity *)
(* nested in it is reported in the result of the evaluation flagged         *)
(* is_valid_for_restart: as one of the periods of the result, or as the     *)
(* last restart of its restart recommendations.                             *)
C15_OffDutyRestartReported ==
    Returned =>
        \A i \in ValidRestarts :
            duty_log[i].end_time - duty_log[i].start_time = 36 * Hour =>
                \/ \E k \in 1..Len(evaluation.status.sleeper_berth_periods) :
                      /\ evaluation.status.sleeper_berth_periods[k].start_time
                            = duty_log[i].start_time
                      /\ evaluation.status.sleeper_berth_periods[k].end_time
                            = duty_log[i].end_time
                      /\ evaluation.status.sleeper_berth_periods[k].is_valid_for_restart
                \/ evaluation.status.restart_recommendations.last_restart
                      = duty_log[i].end_time

(* C16: the cycle_start_date of a result is never earlier than the          *)
(* evaluation time minus the cycle_days of the cycle type, whatever         *)
(* restarts the log contains.                                               *)
C16_CycleStartClamped ==
    Returned => evaluation.status.cycle_start_date >= WindowStart

C16_Witness ==
    /\ Returned
    /\ \E i \in MostRecentRestarts : duty_log[i].end_time < WindowStart
    /\ evaluation.status.cycle_start_date = WindowStart

(* completed OffDuty intervals of at least 34 hours, and the on-duty        *)
(* intervals that overlap the time strictly between their start and end     *)
LongOffDuty ==
    {i \in 1..Len(duty_log) :
        /\ duty_log[i].duty_status = OFF_DUTY
        /\ duty_log[i].end_time # NoEnd
        /\ duty_log[i].end_time - duty_log[i].start_time >= 34 * Hour}

OverlappedByOnDuty(i) ==
    \E j \in 1..Len(duty_log) :
        /\ duty_log[j].duty_status \in {DRIVING, ON_DUTY_NOT_DRIVING}
        /\ duty_log[j].start_time < duty_log[i].end_time
        /\ duty_log[j].end_time > duty_log[i].start_time

(* C24: an OffDuty interval of at least 34 hours that a Driving or          *)
(* OnDutyNotDriving interval overlaps strictly between its start and end,   *)
(* also only partially, is not a restart: the cycle start of the result is  *)
(* not that interval's end.                                                 *)
C24_PartialOverlapInvalidatesRestart ==
    Returned =>
        \A i \in LongOffDuty :
            OverlappedByOnDuty(i) => evaluation.status.cycle_start_date # duty_log[i].end_time

(* the log without the Driving and OnDutyNotDriving intervals that start    *)
(* before the cycle start of the result                                     *)
LogInScope ==
    LET Kept(entry) == ~(/\ entry.duty_status \in {DRIVING, ON_DUTY_NOT_DRIVING}
                         /\ entry.start_time < evaluation.status.cycle_start_date)
    IN  SelectSeq(duty_log, Kept)

StatusInScope ==
    CalculateAdvancedHOSStatus(LogInScope, evaluation.current_time,
                               evaluation.team_driving_info, evaluation.cycle_type,
                               default_rules, clock)

(* C28: cycle scoping is by start time only.  hours_used_this_cycle is the  *)
(* full duration of the Driving and OnDutyNotDriving intervals that start   *)
(* at or after the cycle start, and the intervals that start before it,     *)
(* also those that end after it, change no rule check: without them the     *)
(* same cycle gives the same violations and the same three answers.         *)
C28_ScopedByStartTime ==
    Returned =>
        /\ evaluation.status.hours_used_this_cycle
              = OnDutyHoursFrom(evaluation.status.cycle_start_date)
        /\ (/\ StatusInScope.outcome = "returned"
            /\ StatusInScope.cycle_start_date = evaluation.status.cycle_start_date)
           => /\ StatusInScope.violations = evaluation.status.violations
              /\ StatusInScope.can_drive = evaluation.status.can_drive
              /\ StatusInScope.can_be_on_duty = evaluation.status.can_be_on_duty
              /\ StatusInScope.needs_rest = evaluation.status.needs_rest
              /\ StatusInScope.hours_used_this_cycle
                    = evaluation.status.hours_used_this_cycle

C28_Witness ==
    /\ Returned
    /\ \E j \in 1..Len(duty_log) :
          /\ duty_log[j].duty_status = DRIVING
          /\ duty_log[j].start_time < evaluation.status.cycle_start_date
          /\ duty_log[j].end_time > evaluation.status.cycle_start_date
    /\ \E j \in 1..Len(duty_log) :
          /\ duty_log[j].duty_status = DRIVING
          /\ duty_log[j].start_time >= evaluation.status.cycle_start_date
          /\ evaluation.status.hours_used_this_cycle
                = duty_log[j].end_time - duty_log[j].start_time
    /\ LogInScope # duty_log
    /\ StatusInScope.outcome = "returned"
    /\ StatusInScope.cycle_start_date = evaluation.status.cycle_start_date

----------------------------------------------------------------------------
(* Sleeper-berth periods: a log drawn from sleeper-berth intervals,         *)
(* evaluated as above.  In half-hours:                                      *)
(*   3 h from 200 and 5 h from 210: 2 h apart, 8 h together;                *)
(*   1 h from 230: shorter than 2 h;                                        *)
(*   3 h from 268: exactly 24 h after the 5 h period ends;                  *)
(*   5 h from 324: 25 h after the 3 h period before it ends.                *)
SleeperEntries ==
    {Entry(200, 206, SLEEPER_BERTH),
     Entry(210, 220, SLEEPER_BERTH),
     Entry(230, 232, SLEEPER_BERTH),
     Entry(268, 274, SLEEPER_BERTH),
     Entry(324, 334, SLEEPER_BERTH)}

LogSleeperEntry ==
    /\ Len(duty_log) < MaxSleeperEntries
    /\ \E entry \in SleeperEntries : duty_log' = Append(duty_log, entry)
    /\ evaluation' = NotEvaluated
    /\ UNCHANGED <<wfVars, raceVars, ruleVars, teamVars>>

NextSleeper == LogSleeperEntry \/ Evaluate

SpecSleeper == InitEval /\ [][NextSleeper]_vars

Periods == evaluation.status.sleeper_berth_periods

(* two periods adjacent by start time qualify as a split *)
SplitPair(k) ==
    /\ Periods[k + 1].start_time - Periods[k].end_time <= 24 * Hour
    /\ Periods[k].duration_hours >= 2 * Hour
    /\ Periods[k + 1].duration_hours >= 2 * Hour
    /\ Periods[k].duration_hours + Periods[k + 1].duration_hours >= 8 * Hour

C27_NoSplitBerthViolation ==
    Returned =>
        /\ CountOfType(evaluation.status.violations, "invalid_split_berth_first") = 0
        /\ CountOfType(evaluation.status.violations, "invalid_split_berth_second") = 0
        /\ \A k \in 1..Len(Periods) :
              Periods[k].split_berth_period => Periods[k].duration_hours >= 2 * Hour

C27_Witness ==
    /\ Returned
    /\ Cardinality({k \in 1..Len(Periods) : Periods[k].split_berth_period}) >= 2
    /\ \E k \in 1..Len(Periods) :
          /\ Periods[k].duration_hours < 2 * Hour
          /\ ~Periods[k].split_berth_period
    /\ evaluation.status.violations = <<>>

----------------------------------------------------------------------------
(* Malformed entries: a log drawn from entries that validate_log_entry      *)
(* rejects and one it accepts, evaluated as above (the engine never calls   *)
(* validate_log_entry).  In half-hours:                                     *)
(*   driving that ends 5 h before it starts;                                *)
(*   on duty with end equal to start;                                       *)
(*   driving from 340 without an end;                                       *)
(*   3 h of driving from 390.                                               *)
MalformedEntries ==
    {Entry(380, 370, DRIVING),
     Entry(360, 360, ON_DUTY_NOT_DRIVING),
     Entry(340, NoEnd, DRIVING),
     Entry(390, 396, DRIVING)}

LogMalformedEntry ==
    /\ Len(duty_log) < MaxMalformedEntries
    /\ \E entry \in MalformedEntries : duty_log' = Append(duty_log, entry)
    /\ evaluation' = NotEvaluated
    /\ UNCHANGED <<wfVars, raceVars, ruleVars, teamVars>>

NextMalformed == LogMalformedEntry \/ Evaluate

SpecMalformed == InitEval /\ [][NextMalformed]_vars

Malformed(i) ==
    \/ duty_log[i].end_time # NoEnd /\ duty_log[i].end_time <= duty_log[i].start_time
    \/ /\ duty_log[i].end_time = NoEnd
       /\ \E j \in 1..Len(duty_log) : duty_log[j].start_time > duty_log[i].start_time

(* C18: an evaluation of a log with a malformed interval (end <= start, or  *)
(* no end on an interval that is not the most recent one) fails as a whole: *)
(* it returns no HOSStatus.                                                 *)
C18_MalformedLogFails ==
    (evaluation.called /\ \E i \in 1..Len(duty_log) : Malformed(i))
        => evaluation.status.outcome = "raised"

----------------------------------------------------------------------------
(* The rule registry at work: rules are updated and added while the engine  *)
(* runs its pass over the rules, one rule per step.                         *)

(* dict.update(updates) *)
UpdateDict(dict, updates) ==
    [key \in (DOMAIN dict) \cup (DOMAIN updates) |->
        IF key \in DOMAIN updates THEN updates[key] ELSE dict[key]]

(* HOSRuleEngine.update_rule *)
update_rule_Upsert(reg, objects, rule_id, updates) ==
    IF rule_id \notin DOMAIN reg.ref
    THEN [ok |-> TRUE,
          registry |-> [ids |-> Append(reg.ids, rule_id),
                        ref |-> [id \in (DOMAIN reg.ref) \cup {rule_id} |->
                                   IF id = rule_id THEN Len(objects) + 1 ELSE reg.ref[id]]],
          rule_objects |-> Append(objects, updates)]
    ELSE [ok |-> TRUE, registry |-> reg,
          rule_objects |-> [objects EXCEPT ![reg.ref[rule_id]] = UpdateDict(@, updates)]]

update_rule(reg, objects, rule_id, updates) ==
    IF rule_id \notin DOMAIN reg.ref
    THEN [ok |-> FALSE, registry |-> reg, rule_objects |-> objects]
    ELSE [ok |-> TRUE, registry |-> reg,
          rule_objects |-> [objects EXCEPT ![reg.ref[rule_id]] = UpdateDict(@, updates)]]

(* HOSRuleEngine.add_custom_rule: self.rules[rule_id] = rule_config, a new  *)
(* object; an id already registered keeps its place in the order            *)
add_custom_rule(reg, objects, rule_id, rule_config) ==
    [ok |-> TRUE,
     registry |-> [ids |-> IF rule_id \in DOMAIN reg.ref THEN reg.ids
                           ELSE Append(reg.ids, rule_id),
                   ref |-> [id \in (DOMAIN reg.ref) \cup {rule_id} |->
                              IF id = rule_id THEN Len(objects) + 1 ELSE reg.ref[id]]],
     rule_objects |-> Append(objects, rule_config)]

(* HOSRuleEngine.get_all_rules: self.rules.copy(), a copy of the dictionary *)
(* that refers to the same rule_config objects                              *)
get_all_rules(reg) == reg

(* The calls made on the registry *)
UpdatedRuleIds == {"30_min_break_requirement", "no_such_rule"}

RuleUpdates ==
    {[enabled |-> FALSE],
     [parameters |-> [break_threshold |-> 6 * Hour, min_break |-> Hour]]}

CustomRules ==
    {[rule_id |-> "custom_rule",
      rule_config |-> [severity |-> MINOR, enabled |-> TRUE,
                       parameters |-> [max_hours |-> 10 * Hour]]],
     [rule_id |-> "30_min_break_requirement",
      rule_config |-> [severity |-> MAJOR, enabled |-> TRUE,
                       parameters |-> [break_threshold |-> 10 * Hour,
                                       min_break |-> HalfHour]]]}

(* The logs the pass runs on, evaluated at 400 by a 70/8 engine: nothing,   *)
(* and 9 h of driving                                                       *)
PassLogs == {<<>>, <<Entry(380, 398, DRIVING)>>}
PassTime == 400

(* cycle_entries as calculate_advanced_hos_status hands them to the pass *)
PassCycleEntries ==
    LET sorted_entries == SortedByStart(duty_log)
        cycle_start == CalculateAdvancedCycleStart(sorted_entries, PassTime,
                                                   HOS_LIMITS[SEVENTY_EIGHT])
    IN  CycleEntries(sorted_entries, cycle_start)

PassSleeperBerthPeriods ==
    CalculateSleeperBerthPeriods(SortedByStart(duty_log), PassTime, HOS_LIMITS[SEVENTY_EIGHT])

InitRules ==
    /\ duty_log \in PassLogs
    /\ evaluation = NotEvaluated
    /\ RuleEngineConstructed
    /\ violation = NewViolation(PENDING)
    /\ clock = 1
    /\ last = NoCall
    /\ call = IdleRace
    /\ pcR = "idle"
    /\ pcE = "idle"
    /\ tmpE = NothingRead
    /\ CoordinatorConstructed

UpdateRule ==
    /\ rule_calls < MaxRuleCalls
    /\ \E rule_id \in UpdatedRuleIds, updates \in RuleUpdates :
          LET r == update_rule(registry, rule_objects, rule_id, updates)
          IN  /\ registry' = r.registry
              /\ rule_objects' = r.rule_objects
              /\ last_rule_call' =
                    [op |-> "update_rule", rule_id |-> rule_id, ok |-> r.ok,
                     before |-> [registry |-> registry, rule_objects |-> rule_objects]]
    /\ rule_calls' = rule_calls + 1
    /\ UNCHANGED <<pass, wfVars, raceVars, evalVars, teamVars>>

AddCustomRule ==
    /\ rule_calls < MaxRuleCalls
    /\ \E custom \in CustomRules :
          LET r == add_custom_rule(registry, rule_objects, custom.rule_id,
                                   custom.rule_config)
          IN  /\ registry' = r.registry
              /\ rule_objects' = r.rule_objects
              /\ last_rule_call' =
                    [op |-> "add_custom_rule", rule_id |-> custom.rule_id, ok |-> r.ok,
                     before |-> [registry |-> registry, rule_objects |-> rule_objects]]
    /\ rule_calls' = rule_calls + 1
    /\ UNCHANGED <<pass, wfVars, raceVars, evalVars, teamVars>>

(* _check_advanced_violations up to the loop: the copy of the rules.  The   *)
(* pass also notes the settings every rule has at this moment.              *)
StartPass ==
    /\ pass.pc \in {"idle", "done"}
    /\ LET all_rules == get_all_rules(registry)
       IN  pass' = [pc |-> IF all_rules.ids = <<>> THEN "done" ELSE "checking",
                    ids |-> all_rules.ids,
                    ref |-> all_rules.ref,
                    k |-> 1,
                    at_start |-> [k \in 1..Len(all_rules.ids) |->
                                    rule_objects[all_rules.ref[all_rules.ids[k]]]],
                    seen |-> <<>>,
                    read |-> <<>>,
                    raised |-> FALSE,
                    violations |-> <<>>]
    /\ UNCHANGED <<registry, rule_objects, last_rule_call, rule_calls,
                   wfVars, raceVars, evalVars, teamVars>>

(* One turn of the loop of _check_advanced_violations reads the rule_config *)
(* object of the next rule of the copy several times, and no lock keeps     *)
(* update_rule of another caller from running between two reads.            *)

(* if not rule_config.get('enabled', True): continue.  A rule that is not   *)
(* enabled, or whose id _check_rule_violation does not know, ends the turn. *)
ReadEnabled ==
    /\ pass.pc = "checking"
    /\ LET rule_id == pass.ids[pass.k]
           rule_config == rule_objects[pass.ref[rule_id]]
           enabled == IF "enabled" \in DOMAIN rule_config THEN rule_config.enabled ELSE TRUE
       IN  IF enabled /\ rule_id \in {RuleIds[i] : i \in 1..Len(RuleIds)}
           THEN pass' = [pass EXCEPT !.read = [enabled |-> enabled, parameters |-> <<>>],
                                     !.pc = "enabled_read"]
           ELSE pass' = [pass EXCEPT !.seen = Append(@, [enabled |-> enabled]),
                                     !.k = @ + 1,
                                     !.pc = IF pass.k = Len(pass.ids)
                                            THEN "done" ELSE "checking"]
    /\ UNCHANGED <<registry, rule_objects, last_rule_call, rule_calls,
                   wfVars, raceVars, evalVars, teamVars>>

(* The parameters a rule's check reads, in the order of its first           *)
(* statements: rule_config['parameters'][..], one read each                 *)
ParameterReads ==
    [driving_limit_11_hours |-> <<"max_hours">>,
     on_duty_limit_14_hours |-> <<"max_hours">>,
     30_min_break_requirement |-> <<"break_threshold", "min_break">>,
     cycle_hours_limit |-> <<"cycle_hours">>,
     34_hour_restart |-> <<"min_hours">>,
     sleeper_berth_split |-> <<"min_first_period", "min_second_period">>]

(* the next read of a parameter, from the rule_config object as it is now   *)
ReadParameters ==
    /\ pass.pc = "enabled_read"
    /\ LET rule_id == pass.ids[pass.k]
           rule_config == rule_objects[pass.ref[rule_id]]
           n == Cardinality(DOMAIN pass.read.parameters)
           key == ParameterReads[rule_id][n + 1]
       IN  pass' = [pass EXCEPT
                       !.read.parameters = UpdateDict(@, key :> rule_config.parameters[key]),
                       !.pc = IF n + 1 = Len(ParameterReads[rule_id])
                              THEN "parameters_read" ELSE "enabled_read"]
    /\ UNCHANGED <<registry, rule_objects, last_rule_call, rule_calls,
                   wfVars, raceVars, evalVars, teamVars>>

(* the rest of the check, with the parameters read before: a violation it   *)
(* builds reads rule_config['severity']                                     *)
FinishCheck ==
    /\ pass.pc = "parameters_read"
    /\ LET rule_id == pass.ids[pass.k]
           current == rule_objects[pass.ref[rule_id]]
           rule_config == [current EXCEPT !.parameters = pass.read.parameters]
           found == CheckRuleViolation(rule_id, rule_config, PassCycleEntries,
                                       PassTime, PassSleeperBerthPeriods, clock)
       IN  pass' = [pass EXCEPT
                       !.seen = Append(@, pass.read),
                       !.read = <<>>,
                       !.k = @ + 1,
                       !.raised = found.raised,
                       !.violations = @ \o found.violations,
                       !.pc = IF found.raised \/ pass.k = Len(pass.ids)
                              THEN "done" ELSE "checking"]
    /\ UNCHANGED <<registry, rule_objects, last_rule_call, rule_calls,
                   wfVars, raceVars, evalVars, teamVars>>

NextRules ==
    UpdateRule \/ AddCustomRule \/ StartPass \/ ReadEnabled \/ ReadParameters \/ FinishCheck

SpecRules == InitRules /\ [][NextRules]_vars

(* C19: update_rule with a rule id that is not registered fails and changes *)
(* nothing: the registered ids and every rule's settings are as before.     *)
C19_UnknownRuleUpdateNoEffect ==
    (/\ last_rule_call.op = "update_rule"
     /\ last_rule_call.rule_id \notin DOMAIN last_rule_call.before.registry.ref)
    => /\ ~last_rule_call.ok
       /\ registry = last_rule_call.before.registry
       /\ rule_objects = last_rule_call.before.rule_objects

C19_Witness ==
    /\ last_rule_call.op = "update_rule"
    /\ last_rule_call.rule_id \notin DOMAIN last_rule_call.before.registry.ref
    /\ ~last_rule_call.ok
    /\ rule_objects # DefaultRuleObjects
    /\ pass.pc = "checking"

(* C20: a pass over the rules works on the settings the rules had when it   *)
(* began: the enabled flag and the parameters it has read of every rule are *)
(* those of the start of the pass, whatever update_rule and add_custom_rule *)
(* calls were made meanwhile.                                               *)
C20_PassSeesSnapshot ==
    pass.pc # "idle" =>
        \A k \in 1..Len(pass.seen) :
            /\ pass.seen[k].enabled = pass.at_start[k].enabled
            /\ "parameters" \in DOMAIN pass.seen[k]
                  => \A key \in DOMAIN pass.seen[k].parameters :
                        pass.seen[k].parameters[key] = pass.at_start[k].parameters[key]

----------------------------------------------------------------------------
(* Evaluating twice: the same log is evaluated a second time with the same  *)
(* arguments by an engine with the same rule settings, while the wall clock *)
(* moves on.                                                                *)

RerunEntries == {Entry(380, 398, DRIVING), Entry(372, 400, ON_DUTY_NOT_DRIVING)}

(* The rule settings of the engine: the default rules, and the default      *)
(* rules after update_rule('cycle_hours_limit', {'parameters': ...}) with   *)
(* an int cycle_hours of 10 and of -1.                                      *)
CycleHoursSetTo(hours) ==
    UpdateDict(default_rules,
               [cycle_hours_limit |->
                   UpdateDict(default_rules.cycle_hours_limit,
                              [parameters |-> [cycle_hours |-> hours * Hour, cycle_days |-> 8],
                               number_type |-> "int"])])

RuleSettings == {default_rules, CycleHoursSetTo(10), CycleHoursSetTo(-1)}

NotRun == [outcome |-> "none"]

LogRerunEntry ==
    /\ Len(duty_log) < MaxRerunEntries
    /\ \E entry \in RerunEntries : duty_log' = Append(duty_log, entry)
    /\ evaluation' = NotEvaluated
    /\ UNCHANGED <<wfVars, raceVars, ruleVars, teamVars>>

FirstRun ==
    /\ \E current_time \in EvaluationTimes, cycle_type \in CycleType, team \in Teams,
          rules \in RuleSettings :
          evaluation' =
              [called |-> TRUE,
               current_time |-> current_time,
               cycle_type |-> cycle_type,
               team_driving_info |-> team,
               rules |-> rules,
               status |-> CalculateAdvancedHOSStatus(duty_log, current_time, team,
                                                     cycle_type, rules, clock),
               rerun |-> NotRun]
    /\ UNCHANGED <<duty_log, wfVars, raceVars, ruleVars, teamVars>>

SecondRun ==
    /\ evaluation.called
    /\ evaluation.rerun = NotRun
    /\ evaluation' =
          [evaluation EXCEPT !.rerun =
              CalculateAdvancedHOSStatus(duty_log, evaluation.current_time,
                                         evaluation.team_driving_info,
                                         evaluation.cycle_type, evaluation.rules, clock)]
    /\ UNCHANGED <<duty_log, wfVars, raceVars, ruleVars, teamVars>>

NextRerun == LogRerunEntry \/ FirstRun \/ SecondRun \/ Tick

SpecRerun == InitEval /\ [][NextRerun]_vars

(* C21: two evaluations of the same log with the same evaluation time, the  *)
(* same cycle type and the same rule settings give identical results: both  *)
(* fail, or both return the same flags, hours, cycle start and violations,  *)
(* with the same occurred_at, in the same order.                            *)
C21_EvaluateDeterministic ==
    (evaluation.called /\ evaluation.rerun # NotRun)
        => evaluation.rerun = evaluation.status


----------------------------------------------------------------------------
(* Breaks and shift limits: a log drawn from driving stints, breaks and a   *)
(* full on-duty shift, evaluated as above.  In half-hours:                  *)
(*   6 h of driving from 372 and 6 h of driving from 386;                   *)
(*   a 30-minute break between them, from 384;                              *)
(*   9 h of driving from 380;                                               *)
(*   14 h on duty, not driving, from 372, that is 14 h before 400;          *)
(*   a 10 h break from 340.                                                 *)
BreakEntries ==
    {Entry(372, 384, DRIVING),
     Entry(386, 398, DRIVING),
     Entry(384, 385, OFF_DUTY),
     Entry(380, 398, DRIVING),
     Entry(372, 400, ON_DUTY_NOT_DRIVING),
     Entry(340, 360, OFF_DUTY)}

LogBreakEntry ==
    /\ Len(duty_log) < MaxBreakEntries
    /\ \E entry \in BreakEntries : duty_log' = Append(duty_log, entry)
    /\ evaluation' = NotEvaluated
    /\ UNCHANGED <<wfVars, raceVars, ruleVars, teamVars>>

NextBreaks == LogBreakEntry \/ Evaluate

SpecBreaks == InitEval /\ [][NextBreaks]_vars

(* the cycle-scoped intervals of the evaluated log *)
Scoped == {i \in 1..Len(duty_log) : CycleScoped(i)}

(* completed OffDuty intervals in scope that last at least the given time *)
BreaksOfAtLeast(duration) ==
    {i \in Scoped :
        /\ duty_log[i].duty_status = OFF_DUTY
        /\ duty_log[i].end_time # NoEnd
        /\ duty_log[i].end_time - duty_log[i].start_time >= duration}

(* the end of the most recent of them *)
EndOfLatest(breaks) ==
    duty_log[CHOOSE i \in breaks :
                \A j \in breaks : duty_log[j].start_time <= duty_log[i].start_time].end_time

(* hours of the scoped intervals of the given statuses that start at or     *)
(* after the given time                                                     *)
ScopedHoursFrom(statuses, time) ==
    LET Counts(entry) == /\ entry.duty_status \in statuses
                         /\ entry.start_time >= CycleStartOfEvaluation
                         /\ entry.start_time >= time
    IN  SumHours(SelectSeq(duty_log, Counts))

DrivingHoursSinceBreak ==
    IF BreaksOfAtLeast(HalfHour) = {}
    THEN ScopedHoursFrom({DRIVING}, CycleStartOfEvaluation)
    ELSE ScopedHoursFrom({DRIVING}, EndOfLatest(BreaksOfAtLeast(HalfHour)))

OnDutyHoursSinceTenHourBreak ==
    IF BreaksOfAtLeast(10 * Hour) = {}
    THEN ScopedHoursFrom({DRIVING, ON_DUTY_NOT_DRIVING}, evaluation.current_time - 14 * Hour)
    ELSE ScopedHoursFrom({DRIVING, ON_DUTY_NOT_DRIVING},
                         EndOfLatest(BreaksOfAtLeast(10 * Hour)))

CriticalPresent ==
    \E k \in 1..Len(evaluation.status.violations) :
        evaluation.status.violations[k].severity = CRITICAL

TeamCheckBlocks ==
    /\ evaluation.team_driving_info # NoTeam
    /\ evaluation.team_driving_info.current_driver # DRIVER_1

(* C22: in every result, can_drive is false exactly when a critical         *)
(* violation is present, or the team-driving check blocks the driver, or    *)
(* the driving hours since the last break are at least 11, or the on-duty   *)
(* hours since the last 10-hour break are at least 14; otherwise it is      *)
(* true.                                                                    *)
C22_CanDriveExactly ==
    Returned =>
        (evaluation.status.can_drive
            <=> ~(\/ CriticalPresent
                  \/ TeamCheckBlocks
                  \/ DrivingHoursSinceBreak >= 11 * Hour
                  \/ OnDutyHoursSinceTenHourBreak >= 14 * Hour))

C22_Witness ==
    /\ Returned
    /\ ~evaluation.status.can_drive
    /\ ~CriticalPresent
    /\ ~TeamCheckBlocks
    /\ DrivingHoursSinceBreak < 11 * Hour
    /\ OnDutyHoursSinceTenHourBreak >= 14 * Hour

(* C23: a result has a no_30_min_break violation exactly when the driving   *)
(* hours since the end of the most recent OffDuty interval of at least 30   *)
(* minutes (all driving hours in scope when there is none) exceed 8, and    *)
(* never more than one; 9 hours of driving with no break have it.           *)
C23_ThirtyMinuteBreak ==
    Returned =>
        /\ CountOfType(evaluation.status.violations, "no_30_min_break")
              = (IF DrivingHoursSinceBreak > 8 * Hour THEN 1 ELSE 0)
        /\ (BreaksOfAtLeast(HalfHour) = {}
               /\ ScopedHoursFrom({DRIVING}, CycleStartOfEvaluation) = 9 * Hour)
            => CountOfType(evaluation.status.violations, "no_30_min_break") = 1

C23_Witness ==
    /\ Returned
    /\ BreaksOfAtLeast(HalfHour) # {}
    /\ ScopedHoursFrom({DRIVING}, CycleStartOfEvaluation) > 8 * Hour
    /\ DrivingHoursSinceBreak > 0
    /\ DrivingHoursSinceBreak <= 8 * Hour
    /\ CountOfType(evaluation.status.violations, "no_30_min_break") = 0

(* completed OffDuty intervals in scope shorter than 34 hours *)
ShortOffDuty == BreaksOfAtLeast(0) \ BreaksOfAtLeast(34 * Hour)

(* C26: with the default rules, a result for a log with a completed,        *)
(* cycle-scoped OffDuty interval shorter than 34 hours has a critical       *)
(* invalid_34_hour_restart violation for each such interval, and            *)
(* can_drive = false and can_be_on_duty = false.                            *)
C26_ShortOffDutyBlocks ==
    Returned =>
        /\ \A i \in ShortOffDuty :
              /\ \E k \in 1..Len(evaluation.status.violations) :
                     evaluation.status.violations[k]
                        = NewEngineViolation("invalid_34_hour_restart", CRITICAL,
                                             duty_log[i].start_time)
              /\ ~evaluation.status.can_drive
              /\ ~evaluation.status.can_be_on_duty
        /\ CountOfType(evaluation.status.violations, "invalid_34_hour_restart")
              = Cardinality(ShortOffDuty)

C26_Witness ==
    /\ Returned
    /\ evaluation.team_driving_info = NoTeam
    /\ \E i \in ShortOffDuty : duty_log[i].end_time - duty_log[i].start_time = HalfHour
    /\ \E i \in ShortOffDuty : duty_log[i].end_time - duty_log[i].start_time = 10 * Hour
    /\ DrivingHoursSinceBreak < 11 * Hour
    /\ OnDutyHoursSinceTenHourBreak < 14 * Hour
    /\ ~evaluation.status.can_drive
    /\ ~evaluation.status.can_be_on_duty

(* C29: in every result, can_be_on_duty = false implies can_drive = false   *)
(* and needs_rest = true.                                                   *)
C29_OnDutyBlockImpliesDriveBlock ==
    Returned =>
        (~evaluation.status.can_be_on_duty
            => ~evaluation.status.can_drive /\ evaluation.status.needs_rest)

C29_Witness ==
    /\ Returned
    /\ evaluation.status.violations = <<>>
    /\ ~evaluation.status.can_be_on_duty
    /\ ~evaluation.status.can_drive
    /\ evaluation.status.needs_rest


----------------------------------------------------------------------------
(* Team driving: TeamDrivingCoordinator keeps the TeamDrivingInfo of the    *)
(* teams it created, and the log of a team's driver is evaluated with the   *)
(* TeamDrivingInfo of the team.                                             *)

(* TeamDrivingInfo(team_id, driver_1_id, driver_2_id, DRIVER_1) *)
NewTeamDrivingInfo(team_id, driver_1_id, driver_2_id) ==
    [team_id |-> team_id,
     driver_1_id |-> driver_1_id,
     driver_2_id |-> driver_2_id,
     current_driver |-> DRIVER_1,
     handoff_time |-> NoTime,
     handoff_location |-> "",
     coordination_notes |-> ""]

(* dict[key] = value *)
SetItem(dict, key, value) ==
    [k \in DOMAIN dict \cup {key} |-> IF k = key THEN value ELSE dict[k]]

(* create_team: the teams after the call, and the returned bool *)
create_team(teams, team_id, driver_1_id, driver_2_id) ==
    [active_teams |-> SetItem(teams, team_id,
                              NewTeamDrivingInfo(team_id, driver_1_id, driver_2_id)),
     result |-> TRUE]

(* handoff_driving: for an unknown team id the ValidationError raised       *)
(* inside the try is caught and the call returns False                      *)
handoff_driving_AlwaysToSecond(teams, team_id, handoff_location, notes, now) ==
    IF team_id \notin DOMAIN teams
    THEN [active_teams |-> teams, result |-> FALSE]
    ELSE [active_teams |->
              [teams EXCEPT ![team_id] =
                  [@ EXCEPT !.current_driver = DRIVER_2,
                            !.handoff_time = now,
                            !.handoff_location = handoff_location,
                            !.coordination_notes = notes]],
          result |-> TRUE]

handoff_driving(teams, team_id, handoff_location, notes, now) ==
    IF team_id \notin DOMAIN teams
    THEN [active_teams |-> teams, result |-> FALSE]
    ELSE [active_teams |->
              [teams EXCEPT ![team_id] =
                  [@ EXCEPT !.current_driver = IF @ = DRIVER_1 THEN DRIVER_2 ELSE DRIVER_1,
                            !.handoff_time = now,
                            !.handoff_location = handoff_location,
                            !.coordination_notes = notes]],
          result |-> TRUE]

(* get_team_status: self.active_teams.get(team_id) *)
get_team_status(teams, team_id) ==
    IF team_id \in DOMAIN teams THEN teams[team_id] ELSE NoTeam

(* The team ids, drivers, handoff arguments and log entries of the calls;   *)
(* the log is empty or 3 h of driving.                                      *)
TeamIds == {"team_1", "team_2"}
DriverPairs == {<<"alice", "bob">>}
HandoffLocations == {"Reno, NV"}
HandoffNotes == {"", "fuel stop"}
TeamEntries == {Entry(390, 396, DRIVING)}
TeamEvaluationTime == 400

InitTeam == InitEval

CreateTeam ==
    /\ \E team_id \in TeamIds, pair \in DriverPairs :
          LET r == create_team(active_teams, team_id, pair[1], pair[2])
          IN  /\ active_teams' = r.active_teams
              /\ handoff_count' = SetItem(handoff_count, team_id, 0)
              /\ last_team_call' = [op |-> "create_team", team_id |-> team_id,
                                     result |-> r.result, before |-> active_teams]
    /\ UNCHANGED <<wfVars, raceVars, evalVars, ruleVars>>

HandoffDriving ==
    /\ \E team_id \in TeamIds, handoff_location \in HandoffLocations, notes \in HandoffNotes :
          /\ team_id \in DOMAIN handoff_count => handoff_count[team_id] < MaxHandoffs
          /\ LET r == handoff_driving(active_teams, team_id, handoff_location, notes, clock)
             IN  /\ active_teams' = r.active_teams
                 /\ handoff_count' = IF r.result
                                      THEN [handoff_count EXCEPT ![team_id] = @ + 1]
                                      ELSE handoff_count
                 /\ last_team_call' = [op |-> "handoff_driving", team_id |-> team_id,
                                        result |-> r.result, before |-> active_teams]
    /\ UNCHANGED <<wfVars, raceVars, evalVars, ruleVars>>

(* TeamDrivingViewSet.handoff: the view calls handoff_driving on a          *)
(* TeamDrivingCoordinator it has just constructed                           *)
HandoffView ==
    /\ \E team_id \in TeamIds, handoff_location \in HandoffLocations, notes \in HandoffNotes :
          LET r == handoff_driving(NoTeams, team_id, handoff_location, notes, clock)
          IN  last_team_call' = [op |-> "view_handoff", team_id |-> team_id,
                                 result |-> r.result, before |-> active_teams]
    /\ UNCHANGED <<active_teams, handoff_count, wfVars, raceVars, evalVars, ruleVars>>

LogTeamEntry ==
    /\ Len(duty_log) < MaxTeamEntries
    /\ \E entry \in TeamEntries : duty_log' = Append(duty_log, entry)
    /\ evaluation' = NotEvaluated
    /\ UNCHANGED <<wfVars, raceVars, ruleVars, teamVars>>

(* the log of one of the drivers is evaluated with the status of a team *)
EvaluateTeamDriver ==
    /\ \E team_id \in TeamIds, pair \in DriverPairs, k \in 1..2 :
          LET team == get_team_status(active_teams, team_id)
          IN  evaluation' =
                  [called |-> TRUE,
                   current_time |-> TeamEvaluationTime,
                   cycle_type |-> SEVENTY_EIGHT,
                   team_driving_info |-> team,
                   driver |-> pair[k],
                   status |-> CalculateAdvancedHOSStatus(duty_log, TeamEvaluationTime, team,
                                                         SEVENTY_EIGHT, default_rules, clock)]
    /\ UNCHANGED <<duty_log, wfVars, raceVars, ruleVars, teamVars>>

NextTeam == CreateTeam \/ HandoffDriving \/ HandoffView \/ LogTeamEntry \/ EvaluateTeamDriver

SpecTeam == InitTeam /\ [][NextTeam]_vars

(* the driver who holds the role current_driver names *)
ActiveDriver(team) ==
    IF team.current_driver = DRIVER_1 THEN team.driver_1_id ELSE team.driver_2_id

(* C25: when team-driving info is supplied and nothing else blocks driving, *)
(* can_drive is false exactly for a driver who is not the team's active     *)
(* driver: after any number of handoffs the driver holding the active role, *)
(* driver_1 or driver_2, is not blocked.                                    *)
C25_ActiveDriverNotBlocked ==
    (/\ Returned
     /\ evaluation.team_driving_info # NoTeam
     /\ ~CriticalPresent
     /\ DrivingHoursSinceBreak < 11 * Hour
     /\ OnDutyHoursSinceTenHourBreak < 14 * Hour)
    => (~evaluation.status.can_drive
           <=> evaluation.driver # ActiveDriver(evaluation.team_driving_info))

OtherDriver(role) == IF role = DRIVER_1 THEN DRIVER_2 ELSE DRIVER_1

(* C30: a team is created with current_driver DRIVER_1 and every            *)
(* successful handoff_driving switches it to the other of DRIVER_1 and      *)
(* DRIVER_2 and leaves the other teams alone, so current_driver is DRIVER_1 *)
(* after an even number of handoffs and DRIVER_2 after an odd number;       *)
(* handoff_driving on a team id that was never created returns False and    *)
(* changes no team.                                                         *)
C30_HandoffAlternates ==
    /\ \A team_id \in DOMAIN active_teams :
          active_teams[team_id].current_driver
             = (IF handoff_count[team_id] % 2 = 0 THEN DRIVER_1 ELSE DRIVER_2)
    /\ last_team_call.op = "create_team" =>
          /\ last_team_call.result
          /\ active_teams[last_team_call.team_id].current_driver = DRIVER_1
    /\ last_team_call.op = "handoff_driving" =>
          IF last_team_call.team_id \in DOMAIN last_team_call.before
          THEN /\ last_team_call.result
               /\ active_teams[last_team_call.team_id].current_driver
                     = OtherDriver(last_team_call.before[last_team_call.team_id].current_driver)
               /\ \A team_id \in DOMAIN last_team_call.before \ {last_team_call.team_id} :
                     active_teams[team_id] = last_team_call.before[team_id]
          ELSE /\ ~last_team_call.result
               /\ active_teams = last_team_call.before
    /\ last_team_call.op = "view_handoff" => ~last_team_call.result

C30_Witness ==
    /\ last_team_call.op = "handoff_driving"
    /\ ~last_team_call.result
    /\ last_team_call.team_id \notin DOMAIN active_teams
    /\ \E team_id \in DOMAIN active_teams :
          /\ handoff_count[team_id] = 2
          /\ active_teams[team_id].current_driver = DRIVER_1
          /\ active_teams[team_id].handoff_location # ""
====
